---- MODULE Spec2Model ----
(***************************************************************************)
(* A model of dotfiles.py: the symlink-with-backup primitive               *)
(* (create_symlink), the installed-check-then-install primitive            *)
(* (exit_code, check_for_install) and the chained click subcommands.       *)
(*                                                                         *)
(* A file name is the sequence of its dot-separated segments               *)
(* (".vimrc" is <<"", "vimrc">>, "starship.toml" is <<"starship","toml">>),*)
(* a path is the sequence of its names, and the filesystem is a function   *)
(* from the paths that exist to their entries.                             *)
(***************************************************************************)
EXTENDS Integers, Sequences, FiniteSets, TLC

VARIABLES
    platform,     \* sys.platform
    current_dir,  \* Path.cwd(), the checkout of the configuration repository
    fs,           \* the filesystem
    calls,        \* the create_symlink calls made, each with the filesystem it found
    ec,           \* the last exit_code call and what it returned
    gate,         \* the last check_for_install call and what it did
    fs0,          \* the filesystem the run started with
    args,         \* the subcommands chained on the command line
    idx,          \* the subcommand that runs next
    pc,           \* "start", "run", "done" or "aborted" ("off": no run is modelled)
    log,          \* the child processes, requests and browser windows of the run
    raised,       \* the exception that ended the run
    lookups,      \* the application names passed to check_for_install
    base          \* the last baseline: what the listing lacked, what the host did

vars == <<platform, current_dir, fs, calls, ec, gate, fs0, args, idx, pc, log,
          raised, lookups, base>>

linkVars == <<calls>>

gateVars == <<ec, gate>>

runVars == <<fs0, args, idx, pc, log, raised, lookups, base>>

\* ------------------------------------------------------------------ bounds

\* The number of create_symlink calls made in a row on one filesystem.
MaxCalls == 2

\* The number of subcommands chained in one invocation.
MaxChain == 2

\* ------------------------------------------------------------- names, paths

Platforms == {"linux", "darwin", "win32", "freebsd"}

None == <<>>

Dot(n) == <<"", n>>

Plain(n) == <<n>>

home == <<Plain("~")>>

project_home == home \o <<Plain("Projects")>>

Last(s) == s[Len(s)]

Front(s) == SubSeq(s, 1, Len(s) - 1)

IsPrefix(p, q) == Len(p) <= Len(q) /\ SubSeq(q, 1, Len(p)) = p

\* pathlib PurePath.suffix of a name: the text from the last dot on, unless
\* that dot is the first character or the last one.
suffix(name) ==
    IF Len(name) >= 2 /\ Last(name) # "" /\ (Len(name) > 2 \/ name[1] # "")
    THEN <<Last(name)>>
    ELSE <<>>

\* pathlib PurePath.with_suffix: the old suffix is cut off and sfx put on.
with_suffix(path, sfx) ==
    LET name == Last(path)
        stem == IF suffix(name) = <<>> THEN name ELSE Front(name)
    IN  Front(path) \o <<stem \o sfx>>

\* ---------------------------------------------------------------- entries

File(d) == [kind |-> "file", data |-> d, to |-> None]

Dir(d) == [kind |-> "dir", data |-> d, to |-> None]

Link(p) == [kind |-> "link", data |-> "", to |-> p]

NoEntry == [kind |-> "none", data |-> "", to |-> None]

Lstat(f, p) == IF p \in DOMAIN f THEN f[p] ELSE NoEntry

\* What a path resolves to when its symbolic links are followed.
Stat(f, p) ==
    LET e1 == Lstat(f, p)
        e2 == IF e1.kind = "link" THEN Lstat(f, e1.to) ELSE e1
        e3 == IF e2.kind = "link" THEN Lstat(f, e2.to) ELSE e2
    IN  IF e3.kind = "link" THEN NoEntry ELSE e3

exists(f, p) == Stat(f, p).kind # "none"

is_symlink(f, p) == Lstat(f, p).kind = "link"

is_file(f, p) == Stat(f, p).kind = "file"

is_dir(f, p) == Stat(f, p).kind = "dir"

ParentIsDir(f, p) == Len(p) <= 1 \/ is_dir(f, Front(p))

Under(f, p) == {q \in DOMAIN f : IsPrefix(p, q)}

Without(f, ps) == [q \in DOMAIN f \ ps |-> f[q]]

Rebase(q, a, b) == b \o SubSeq(q, Len(a) + 1, Len(q))

\* The entries of f at and under a, placed at and under b.
Moved(f, a, b) == [q \in {Rebase(r, a, b) : r \in Under(f, a)} |->
                      f[a \o SubSeq(q, Len(b) + 1, Len(q))]]

\* ------------------------------------------- the machine a handler runs on
\* m.fs is the filesystem, m.log the child processes, requests and browser
\* windows started so far, m.exc the exception that is propagating ("none"
\* when there is none), m.site the call that raised it, m.rc the return code
\* of the last child process, m.ret what exit_code returned last and m.asked
\* the application names check_for_install was called with.

Raise(m, e, s) == [m EXCEPT !.exc = e, !.site = s]

Ok(m) == m.exc = "none"

SetFs(m, f) == [m EXCEPT !.fs = f]

\* Path.unlink
unlink(m, p) ==
    IF ~Ok(m) THEN m
    ELSE IF Lstat(m.fs, p).kind = "none" THEN Raise(m, "FileNotFoundError", "unlink")
    ELSE IF Lstat(m.fs, p).kind = "dir" THEN Raise(m, "IsADirectoryError", "unlink")
    ELSE SetFs(m, Without(m.fs, {p}))

\* shutil.rmtree: refuses a symbolic link
rmtree(m, p) ==
    IF ~Ok(m) THEN m
    ELSE IF is_symlink(m.fs, p) THEN Raise(m, "OSError", "rmtree")
    ELSE IF Lstat(m.fs, p).kind # "dir" THEN Raise(m, "NotADirectoryError", "rmtree")
    ELSE SetFs(m, Without(m.fs, Under(m.fs, p)))

\* Path.rename of a file: POSIX replaces a file or link at the new name,
\* Windows refuses an existing one.
rename(os, m, a, b) ==
    IF ~Ok(m) THEN m
    ELSE IF Lstat(m.fs, b).kind = "dir" THEN Raise(m, "IsADirectoryError", "rename")
    ELSE IF Lstat(m.fs, b).kind # "none" /\ os = "win32"
         THEN Raise(m, "FileExistsError", "rename")
    ELSE SetFs(m, Without(m.fs, {a, b}) @@ (b :> m.fs[a]))

\* shutil.move of a directory: into b when b is a directory, else os.rename,
\* and when that fails (b is a file or a link) copytree, which finds b there.
shutil_move(m, a, b) ==
    IF ~Ok(m) THEN m
    ELSE IF is_dir(m.fs, b)
         THEN SetFs(m, Without(m.fs, Under(m.fs, a)) @@ Moved(m.fs, a, b \o <<Last(a)>>))
    ELSE IF Lstat(m.fs, b).kind # "none" THEN Raise(m, "FileExistsError", "shutil.move")
    ELSE SetFs(m, Without(m.fs, Under(m.fs, a)) @@ Moved(m.fs, a, b))

\* Path.symlink_to
symlink_to(m, p, to) ==
    IF ~Ok(m) THEN m
    ELSE IF Lstat(m.fs, p).kind # "none" THEN Raise(m, "FileExistsError", "symlink_to")
    ELSE IF ~ParentIsDir(m.fs, p) THEN Raise(m, "FileNotFoundError", "symlink_to")
    ELSE SetFs(m, m.fs @@ (p :> Link(to)))

\* shutil.copy2 of a file (links followed) to a name that is free or a file
copy2(m, src, dst) ==
    IF ~Ok(m) THEN m
    ELSE IF ~ParentIsDir(m.fs, dst) THEN Raise(m, "FileNotFoundError", "copy2")
    ELSE IF is_dir(m.fs, dst)
         THEN SetFs(m, Without(m.fs, {dst \o <<Last(src)>>})
                         @@ (dst \o <<Last(src)>> :> File(Stat(m.fs, src).data)))
    ELSE SetFs(m, Without(m.fs, {dst}) @@ (dst :> File(Stat(m.fs, src).data)))

RECURSIVE MakeDirs(_, _)
\* os.makedirs: the missing directories of p, outermost first
MakeDirs(f, p) ==
    IF Len(p) = 0 \/ p \in DOMAIN f THEN f
    ELSE MakeDirs(f, Front(p)) @@ (p :> Dir("new"))

\* shutil.copytree: the new name must be free; its parents are made
copytree(m, src, dst) ==
    IF ~Ok(m) THEN m
    ELSE IF Lstat(m.fs, dst).kind # "none" THEN Raise(m, "FileExistsError", "copytree")
    ELSE SetFs(m, Moved(m.fs, src, dst) @@ MakeDirs(m.fs, Front(dst)))

\* ----------------------------------------------------------- create_symlink

\* A slip: home / the base name of source_file
default_target_base_name(source_file) == home \o <<Last(source_file)>>

\* target_path or (home / source_file)
default_target(source_file) == home \o source_file

target_of(source_file, target_path) ==
    IF target_path # None THEN target_path ELSE default_target(source_file)

\* A slip: target_file.with_suffix(".bak"), which replaces the suffix
backup_path_replacing_suffix(target_file) == with_suffix(target_file, <<"bak">>)

\* target_file.with_suffix(target_file.suffix + ".bak")
backup_path(target_file) ==
    with_suffix(target_file, suffix(Last(target_file)) \o <<"bak">>)

\* A slip: the source is not looked at
source_missing_unchecked(f, source_path) == FALSE

\* not source_path.exists()
source_missing(f, source_path) == ~exists(f, source_path)

\* Remove any existing symlink or file
displace(os, m, target_file) ==
    LET new_target == backup_path(target_file)
        cleared == IF ~exists(m.fs, new_target) THEN m
                   ELSE IF is_dir(m.fs, new_target) THEN rmtree(m, new_target)
                   ELSE unlink(m, new_target)
    IN  IF is_symlink(m.fs, target_file) THEN unlink(m, target_file)
        ELSE IF is_file(m.fs, target_file) \/ is_dir(m.fs, target_file)
             THEN IF ~Ok(cleared) THEN cleared
                  ELSE IF is_dir(cleared.fs, target_file)
                       THEN shutil_move(cleared, target_file, new_target)
                       ELSE rename(os, cleared, target_file, new_target)
        ELSE m

\* On Windows a copy, elsewhere a symbolic link
place(os, m, source_path, target_file) ==
    IF ~Ok(m) THEN m
    ELSE IF os = "win32"
         THEN IF is_dir(m.fs, source_path)
              THEN copytree(m, source_path, target_file)
              ELSE copy2(m, source_path, target_file)
    ELSE symlink_to(m, target_file, source_path)

create_symlink(os, cwd, m, source_file, target_path) ==
    LET source_path == cwd \o source_file
        target_file == target_of(source_file, target_path)
    IN  IF ~Ok(m) THEN m
        ELSE IF source_missing(m.fs, source_path) THEN m
        ELSE place(os, displace(os, m, target_file), source_path, target_file)

Machine(f) ==
    [fs |-> f, log |-> <<>>, exc |-> "none", site |-> "", rc |-> 0, ret |-> FALSE,
     asked |-> {}]

\* ------------------------------------------------------- child processes
\* A command line is the sequence of its words and of the blanks between them
\* ("tmux -V" is <<"tmux", " ", "-V">>); str.split() keeps the words.

split(command) == SelectSeq(command, LAMBDA w : w # " ")

\* What the host makes of a program: it runs and exits 0, runs and exits with
\* another status, is not there, or is there and cannot be executed.
RunOutcomes == {"exit0", "exit_nonzero", "not_found", "not_executable"}

Started(outcome) == outcome \in {"exit0", "exit_nonzero"}

Logged(m, op, argv, started) ==
    [m EXCEPT !.log = Append(@, [op |-> op, argv |-> argv, started |-> started])]

\* subprocess.run(argv): the program is argv[0]; one that cannot be started
\* raises, any exit status is returned
subprocess_run(m, argv, outcome) ==
    IF ~Ok(m) THEN m
    ELSE IF argv = <<>> THEN Raise(m, "IndexError", "subprocess.run")
    ELSE IF outcome = "not_found"
         THEN Raise(Logged(m, "run", argv, FALSE), "FileNotFoundError", "subprocess.run")
    ELSE IF outcome = "not_executable"
         THEN Raise(Logged(m, "run", argv, FALSE), "PermissionError", "subprocess.run")
    ELSE [Logged(m, "run", argv, TRUE) EXCEPT !.rc = IF outcome = "exit0" THEN 0 ELSE 1]

\* subprocess.run(command, shell=True): the shell starts, and a program it
\* cannot run is a non-zero status of the shell
shell_run(m, command, outcome) ==
    IF ~Ok(m) THEN m
    ELSE [Logged(m, "run", command, TRUE) EXCEPT !.rc = IF outcome = "exit0" THEN 0 ELSE 1]

\* requests.get(url): the answer, or the exception of a host that is offline
requests_get(m, url, net) ==
    IF ~Ok(m) THEN m
    ELSE IF net = "offline"
         THEN Raise(Logged(m, "get", <<url>>, FALSE), "ConnectionError", "requests.get")
    ELSE Logged(m, "get", <<url>>, TRUE)

\* open(path, "wb") and the writes: the file, in a directory that exists
write_file(m, path, d) ==
    IF ~Ok(m) THEN m
    ELSE IF ~ParentIsDir(m.fs, path) THEN Raise(m, "FileNotFoundError", "open")
    ELSE IF is_dir(m.fs, path) THEN Raise(m, "IsADirectoryError", "open")
    ELSE SetFs(m, Without(m.fs, {path}) @@ (path :> File(d)))

\* ------------------------------------------------------------ module tables

starship_toml == <<Dot("config"), <<"starship", "toml">>>>

tmux_conf(dir) == <<Plain(dir), <<"", "tmux", "conf">>>>

DictGet(d, k) == IF k \in DOMAIN d THEN d[k] ELSE ""

currently_installed_list ==
    [darwin |-> <<"brew", "list">>,
     linux |-> <<"apt", "list", "--installed">>,
     win32 |-> None]

package_manager ==
    [darwin |-> <<"brew">>, linux |-> <<"sudo", " ", "apt">>, win32 |-> None]

PackageManagerGet(os) == IF os \in DOMAIN package_manager THEN package_manager[os] ELSE None

baseline_apps ==
    [both |-> <<"duf", "exa", "fzf", "git", "lynx", "pandoc", "most", "pipenv", "pspg">>,
     darwin |-> <<"bash", "difftastic", "lazydocker", "the_silver_searcher", "yank">>,
     linux |-> <<"silversearcher-ag">>]

apps ==
    [bash |-> [darwin |-> "bash", verify |-> <<"bash">>],
     psql |-> [linux |-> "postgresql-client-common",
               verify |-> <<"psql", " ", "--version">>],
     starship |-> [darwin |-> "starship", linux |-> "starship",
                   verify |-> <<"starship", " ", "--help">>],
     tmux |-> [darwin |-> "tmux", linux |-> "tmux", verify |-> <<"tmux", " ", "-V">>],
     vim |-> [darwin |-> "macvim", linux |-> "vim-gtk3", win32 |-> "vim",
              verify |-> <<"vim", " ", "--version">>]]

vim_sources == <<<<Dot("gvimrc")>>, <<Dot("vimrc")>>, <<Dot("vim")>>>>

\* ----------------------------------------------------------------- exit_code

\* m.ret is the value returned; only FileNotFoundError is caught
exit_code(os, m, command, outcome) ==
    LET shell == os = "win32"
        ran == IF shell THEN shell_run(m, command, outcome)
               ELSE subprocess_run(m, split(command), outcome)
    IN  IF ~Ok(m) THEN m
        ELSE IF ran.exc = "FileNotFoundError"
             THEN [ran EXCEPT !.exc = "none", !.site = "", !.ret = FALSE]
        ELSE IF ~Ok(ran) THEN ran
        ELSE [ran EXCEPT !.ret = (ran.rc = 0)]

\* --------------------------------------------------------- check_for_install
\* env.verify, env.install and env.fallback are what the host makes of the
\* verification command, of the installer and of the second installer tried
\* on Windows; env.net is "online" or "offline".

starship_installer_for_linux(m, env) ==
    LET target_file == project_home \o <<<<"install", "sh">>>>
        got == requests_get(m, "https://starship.rs/install.sh", env.net)
        written == write_file(got, target_file, "installer")
        ran == IF ~Ok(written) THEN written
               ELSE [Logged(written, "run", <<"sh", "-c", "install.sh">>, TRUE)
                        EXCEPT !.rc = IF env.install = "exit0" THEN 0 ELSE 1]
    IN  unlink(ran, target_file)

_install_windows_app(m, app_name, env) ==
    LET winget == subprocess_run(m, <<"winget", "install", "vim.vim", "--silent",
                                      "--accept-package-agreements",
                                      "--accept-source-agreements">>, env.install)
        choco == subprocess_run(winget, <<"choco", "install", "vim", "-y">>, env.fallback)
    IN  IF ~Ok(m) \/ app_name # "vim" THEN m
        ELSE IF ~Ok(winget) \/ winget.rc = 0 THEN winget
        ELSE choco

install_with_package_manager(os, m, app_name, env) ==
    LET installer_str == PackageManagerGet(os)
        installer == split(installer_str)
        package_name == DictGet(apps[app_name], os)
    IN  IF installer_str = None THEN m
        ELSE IF package_name = "" THEN m
        ELSE IF os = "linux" /\ package_name = "starship"
             THEN starship_installer_for_linux(m, env)
        ELSE subprocess_run(m, installer \o <<"install", package_name>>, env.install)

check_for_install(os, m, app_name, env) ==
    LET called == [m EXCEPT !.asked = @ \cup {app_name}]
        verified == exit_code(os, called, apps[app_name].verify, env.verify)
    IN  IF ~Ok(m) THEN m
        ELSE IF app_name \notin DOMAIN apps
             THEN Raise(called, "KeyError", "apps[app_name]")
        ELSE IF ~Ok(verified) \/ verified.ret THEN verified
        ELSE IF os = "win32" THEN _install_windows_app(verified, app_name, env)
        ELSE install_with_package_manager(os, verified, app_name, env)

Envs == [verify : RunOutcomes, install : RunOutcomes, fallback : RunOutcomes,
         net : {"online", "offline"}]

\* ------------------------------------------------------------------- main

IsProperPrefix(p, q) == IsPrefix(p, q) /\ p # q

\* A slip: "or" for "and"
directory_precondition_either(cwd, f) ==
    IsProperPrefix(home, cwd) \/ exists(f, project_home)

\* home in list(current_dir.parents) and Path(project_home).exists()
directory_precondition(cwd, f) == IsProperPrefix(home, cwd) /\ exists(f, project_home)

\* The group callback; click invokes it once, before the first subcommand.
main(os, cwd, m) ==
    IF os = "win32" THEN m
    ELSE IF directory_precondition(cwd, m.fs) THEN m
    ELSE Raise(m, "InvalidDirectoryError", "main")

\* ---------------------------------------------- download_and_install_font
\* env.net: "online" or "offline" (requests raises);
\* env.localappdata: whether LOCALAPPDATA is set (Windows).

FontDirs ==
    [darwin |-> home \o <<Plain("Library"), Plain("Fonts")>>,
     linux |-> home \o <<Dot("fonts")>>,
     win32 |-> <<Plain("AppData"), Plain("Microsoft"), Plain("Windows"), Plain("Fonts")>>]

font_destination(os, env) ==
    IF os = "win32" /\ ~env.localappdata THEN None
    ELSE IF os \in DOMAIN FontDirs THEN FontDirs[os]
    ELSE None

extract_fonts(os, m, zip_file_path, env) ==
    LET target_path == font_destination(os, env)
        made == SetFs(m, MakeDirs(m.fs, target_path))
        font == target_path \o <<<<"HackNerdFont-Regular", "ttf">>>>
    IN  IF ~Ok(m) THEN m
        ELSE IF os \notin DOMAIN FontDirs
             THEN Raise(m, "KeyError", "font_destination[current_os]")
        ELSE IF target_path = None THEN m
        ELSE unlink(SetFs(made, Without(made.fs, {font}) @@ (font :> File("Hack"))),
                    zip_file_path)

download_and_install_font(os, m, env) ==
    LET zip_file_path == project_home \o <<<<"Hack", "zip">>>>
        latest == requests_get(m,
                     "https://api.github.com/repos/ryanoasis/nerd-fonts/releases/latest",
                     IF env.net = "offline" THEN "offline" ELSE "online")
        archive == requests_get(latest,
                     "https://github.com/ryanoasis/nerd-fonts/releases/download",
                     "online")
        saved == write_file(archive, zip_file_path, "download")
    IN  IF ~Ok(m) THEN m
        ELSE IF os = "win32" /\ font_destination(os, env) = None THEN m
        ELSE extract_fonts(os, saved, zip_file_path, env)

\* ----------------------------------------------------------------- baseline
\* env.list is what the host makes of the listing command, env.gaps the
\* packages of Packages that are not installed, env.install what the host
\* makes of the package manager's install and env.fzf of fzf's own installer.

\* The packages a listing can show, in the order a listing shows them.
Packages ==
    <<"aom", "bash", "difftastic", "duf", "exa", "fzf", "git", "lazydocker", "lynx",
      "most", "pandoc", "pipenv", "pspg", "silversearcher-ag", "the_silver_searcher",
      "yank">>

\* The packages a host may lack.
ListingGaps == {"fzf", "difftastic", "yank"}

SeqMap(Op(_), seq) == [i \in 1..Len(seq) |-> Op(seq[i])]

Contains(seq, x) == \E i \in 1..Len(seq) : seq[i] = x

\* The lines of the listing: apt prints a header line and name/suite lines,
\* brew the names.
ListingLines(os, env) ==
    LET names == SelectSeq(Packages, LAMBDA n : n \notin env.gaps)
    IN  IF env.list # "exit0" THEN <<>>
        ELSE IF os = "linux"
             THEN <<<<"Listing...">>>>
                  \o SeqMap(LAMBDA n : <<n, "/", "stable,now 1.0 amd64 [installed]">>, names)
        ELSE SeqMap(LAMBDA n : <<n>>, names)

\* str.split("\n") of the output, every line of which ends in a newline
SplitLines(lines) == lines \o <<<<>>>>

\* each.split("/")[0]
FirstField(line) ==
    IF line = <<>> \/ line[1] = "/" THEN "" ELSE line[1]

\* [each.split("/")[0] for each in stdout.split("\n")[1:-1]]
installed_list(lines) ==
    LET parts == SplitLines(lines)
    IN  SeqMap(FirstField, SubSeq(parts, 2, Len(parts) - 1))

baseline_candidates(os) ==
    baseline_apps.both \o (IF os \in DOMAIN baseline_apps THEN baseline_apps[os] ELSE <<>>)

\* One turn of the loop over the candidates.
install_missing(os, m, each, installed, installer, env) ==
    LET got == subprocess_run(m, installer \o <<"install", each>>, env.install)
        fzf == IF each = "fzf"
               THEN subprocess_run(got, <<"/usr/local/opt/fzf/install">>, env.fzf)
               ELSE got
        \* one argument, blanks and all: the name of no program
        difft == IF each = "difftastic"
                 THEN subprocess_run(fzf, <<"git config --global diff.external difft">>,
                                     "not_found")
                 ELSE fzf
    IN  IF ~Ok(m) \/ Contains(installed, each) THEN m
        ELSE IF os = "darwin" THEN difft
        ELSE got

RECURSIVE baseline_loop(_, _, _, _, _, _, _)
baseline_loop(os, m, candidates, i, installed, installer, env) ==
    IF i > Len(candidates) THEN m
    ELSE baseline_loop(os, install_missing(os, m, candidates[i], installed, installer, env),
                       candidates, i + 1, installed, installer, env)

baseline(os, m, env) ==
    LET listed == subprocess_run(m, currently_installed_list[os], env.list)
        installed == installed_list(ListingLines(os, env))
        installer == split(package_manager[os])
    IN  IF os = "win32" THEN m
        ELSE IF os \notin DOMAIN currently_installed_list
             THEN Raise(m, "KeyError", "currently_installed_list[current_os]")
        ELSE IF ~Ok(listed) THEN listed
        ELSE baseline_loop(os, listed, baseline_candidates(os), 1, installed, installer, env)

\* ------------------------------------------------------- the other commands

bash(os, cwd, m, env) ==
    LET mac == create_symlink(os, cwd,
                  create_symlink(os, cwd, check_for_install(os, m, "bash", env),
                                 <<Dot("bash_profile")>>, None),
                  <<<<"", "bashrc", "mac">>>>, home \o <<Dot("bashrc")>>)
        other == create_symlink(os, cwd, m, <<Dot("bashrc")>>, None)
    IN  create_symlink(os, cwd, IF os = "darwin" THEN mac ELSE other,
                       <<Dot("bash_aliases")>>, None)

iterm2(os, m, env) ==
    IF os = "darwin" THEN check_for_install(os, m, "iterm2", env) ELSE m

psql(os, cwd, m, env) ==
    create_symlink(os, cwd, check_for_install(os, m, "psql", env), <<Dot("psqlrc")>>, None)

starship(os, cwd, m, env) ==
    create_symlink(os, cwd, check_for_install(os, m, "starship", env), starship_toml, None)

tmux(os, cwd, m, env) ==
    LET current_os == IF os = "darwin" THEN "mac" ELSE os
    IN  create_symlink(os, cwd, check_for_install(os, m, "tmux", env),
                       tmux_conf(current_os), home \o <<<<"", "tmux", "conf">>>>)

RECURSIVE link_each(_, _, _, _, _)
link_each(os, cwd, m, sources, i) ==
    IF i > Len(sources) THEN m
    ELSE link_each(os, cwd, create_symlink(os, cwd, m, sources[i], None), sources, i + 1)

vim(os, cwd, m, env) ==
    LET checked == check_for_install(os, m, "vim", env)
        windows_gvimrc == <<Plain("windows"), Plain("_gvimrc")>>
        windows_vimrc == <<Plain("windows"), Plain("_vimrc")>>
        gvimrc == IF exists(checked.fs, cwd \o windows_gvimrc)
                  THEN create_symlink(os, cwd, checked, windows_gvimrc,
                                      home \o <<Plain("_gvimrc")>>)
                  ELSE checked
        both == IF exists(gvimrc.fs, cwd \o windows_vimrc)
                THEN create_symlink(os, cwd, gvimrc, windows_vimrc,
                                    home \o <<Plain("_vimrc")>>)
                ELSE gvimrc
        linked == IF os = "win32" THEN both
                  ELSE link_each(os, cwd, checked, vim_sources, 1)
    IN  download_and_install_font(os, linked, env)

vscode(m) ==
    Logged(m, "open", <<"https://code.visualstudio.com/Download">>, TRUE)

\* ------------------------------------------------- create_symlink on its own

repo == home \o <<Plain("dotfiles")>>

vimrc == <<Dot("vimrc")>>

outside == <<Plain("mnt")>>

\* The calls tried: a dotfile, a file below a directory, an explicit target.
LinkInputs ==
    { [source_file |-> vimrc, target_path |-> None],
      [source_file |-> starship_toml, target_path |-> None],
      [source_file |-> tmux_conf("linux"),
       target_path |-> home \o <<<<"", "tmux", "conf">>>>] }

Entry(p, kind, d, src) ==
    CASE kind = "none" -> <<>>
      [] kind = "file" -> (p :> File(d))
      [] kind = "dir" -> (p :> Dir(d))
      [] kind = "link_source" -> (p :> Link(src))
      [] kind = "link_file" -> (p :> Link(outside \o <<Plain("f")>>))
      [] kind = "link_dir" -> (p :> Link(outside \o <<Plain("d")>>))
      [] kind = "link_dangling" -> (p :> Link(outside \o <<Plain("gone")>>))

SourceKinds == {"none", "file", "dir"}

TargetKinds == {"none", "file", "dir", "link_source", "link_file", "link_dir", "link_dangling"}

BackupKinds == {"none", "file", "dir", "link_file", "link_dir", "link_dangling"}

AppendBak(p) == Front(p) \o <<Last(p) \o <<"bak">>>>

Skeleton ==
    (home :> Dir("sys")) @@ (repo :> Dir("sys")) @@ (outside :> Dir("sys"))
    @@ (outside \o <<Plain("f")>> :> File("elsewhere"))
    @@ (outside \o <<Plain("d")>> :> Dir("elsewhere"))

\* The filesystems a call starts from: one input's source, target and backup
\* in every combination of kinds, the directories above them present or not.
LinkInitFS ==
    { LET src == repo \o inp.source_file
          tgt == IF inp.target_path # None THEN inp.target_path
                 ELSE home \o inp.source_file
      IN  Entry(tgt, k[2], "user", src) @@ Entry(AppendBak(tgt), k[3], "old", src)
          @@ Entry(src, k[1], "repo", src)
          @@ MakeDirs(Skeleton, Front(src)) @@ MakeDirs(Skeleton, Front(tgt))
      : inp \in LinkInputs, k \in SourceKinds \X TargetKinds \X BackupKinds }
    \cup
    { Entry(repo \o starship_toml, sk, "repo", None)
          @@ MakeDirs(Skeleton, Front(repo \o starship_toml))
      : sk \in SourceKinds }

NoExitCode == [called |-> FALSE, command |-> <<>>, outcome |-> "exit0",
               exc |-> "none", ret |-> FALSE]

NoGate == [called |-> FALSE, app |-> "", env |-> [verify |-> "exit0",
           install |-> "exit0", fallback |-> "exit0", net |-> "online"],
           exc |-> "none", log |-> <<>>]

NoRaise == [exc |-> "none", site |-> ""]

NoBaseline == [ran |-> FALSE, missing |-> {}, install |-> "exit0", fzf |-> "exit0"]

NoLinkCalls == calls = <<>>

NoGateCalls == ec = NoExitCode /\ gate = NoGate

NoRun ==
    /\ fs0 = fs
    /\ args = <<>>
    /\ idx = 0
    /\ pc = "off"
    /\ log = <<>>
    /\ raised = NoRaise
    /\ lookups = {}
    /\ base = NoBaseline

InitLink ==
    /\ platform \in Platforms
    /\ current_dir = repo
    /\ fs \in LinkInitFS
    /\ NoLinkCalls
    /\ NoGateCalls
    /\ NoRun

CreateSymlinkCall ==
    \E inp \in LinkInputs :
        /\ Len(calls) < MaxCalls
        /\ LET m == create_symlink(platform, current_dir, Machine(fs),
                                   inp.source_file, inp.target_path)
           IN  /\ fs' = m.fs
               /\ calls' = Append(calls, [source_file |-> inp.source_file,
                                          target_path |-> inp.target_path,
                                          pre |-> fs, exc |-> m.exc])
        /\ UNCHANGED <<platform, current_dir, gateVars, runVars>>

NextLink == CreateSymlinkCall

SpecLink == InitLink /\ [][NextLink]_vars

\* ------------------------------ exit_code and check_for_install on their own

\* The command lines tried: the catalog's, the tests', one without a program.
ProbeCommands ==
    {apps[a].verify : a \in DOMAIN apps}
    \cup {<<"psql">>, <<"asdfasdfasdfasdf">>, <<>>, <<" ">>}

InitGate ==
    /\ platform \in Platforms
    /\ current_dir = repo
    /\ fs = Skeleton @@ (project_home :> Dir("sys"))
    /\ NoLinkCalls
    /\ NoGateCalls
    /\ NoRun

ExitCodeCall ==
    \E command \in ProbeCommands, outcome \in RunOutcomes :
        LET m == exit_code(platform, Machine(fs), command, outcome)
        IN  /\ ~ec.called
            /\ ec' = [called |-> TRUE, command |-> command, outcome |-> outcome,
                      exc |-> m.exc, ret |-> m.ret]
            /\ UNCHANGED <<platform, current_dir, fs, gate, linkVars, runVars>>

CheckForInstallCall ==
    \E app_name \in DOMAIN apps, env \in Envs :
        LET m == check_for_install(platform, Machine(fs), app_name, env)
        IN  /\ ~gate.called
            /\ gate' = [called |-> TRUE, app |-> app_name, env |-> env,
                        exc |-> m.exc, log |-> m.log]
            /\ fs' = m.fs
            /\ UNCHANGED <<platform, current_dir, ec, linkVars, runVars>>

NextGate == ExitCodeCall \/ CheckForInstallCall

SpecGate == InitGate /\ [][NextGate]_vars

\* ------------------------------------------------------------ a run of the CLI

Commands == {"baseline", "bash", "iterm2", "psql", "starship", "tmux", "vim", "vscode"}

\* The command lines: one subcommand or several chained.
Chains == UNION {[1..n -> Commands] : n \in 1..MaxChain}

elsewhere == <<Plain("srv"), Plain("dotfiles")>>

FilesAt(dir, names, d) == [q \in {dir \o n : n \in names} |-> File(d)]

\* The checkout: every file the subcommands link, or .psqlrc alone.
RepoFiles(cwd, full) ==
    IF full
    THEN FilesAt(cwd, {<<Dot("bash_profile")>>, <<<<"", "bashrc", "mac">>>>,
                       <<Dot("bashrc")>>, <<Dot("bash_aliases")>>, <<Dot("psqlrc")>>,
                       starship_toml, tmux_conf("mac"), tmux_conf("linux"),
                       <<Dot("gvimrc")>>, <<Dot("vimrc")>>,
                       <<Plain("windows"), Plain("_gvimrc")>>,
                       <<Plain("windows"), Plain("_vimrc")>>}, "repo")
         @@ (cwd \o <<Dot("vim")>> :> Dir("repo"))
         @@ [q \in {cwd \o <<n>> : n \in {Dot("config"), Plain("mac"), Plain("linux"),
                                          Plain("windows")}} |-> Dir("repo")]
    ELSE FilesAt(cwd, {<<Dot("psqlrc")>>}, "repo")

\* The home directory: without dotfiles, or with some of its own.
HomeFiles(fresh) ==
    IF fresh THEN (home \o <<Dot("config")>> :> Dir("user"))
    ELSE FilesAt(home, {<<Dot("psqlrc")>>, <<Dot("bashrc")>>,
                        <<<<"", "tmux", "conf">>>>, <<Plain("_vimrc")>>}, "user")
         @@ (home \o <<Dot("vim")>> :> Dir("user"))
         @@ (home \o <<<<"", "vim", "bak">>>> :> Dir("old"))
         @@ (home \o <<Dot("vimrc")>> :> Link(outside \o <<Plain("f")>>))
         @@ (home \o <<<<"", "psqlrc", "bak">>>> :> File("old"))

\* A full checkout beside a home with dotfiles of its own, or a checkout of
\* .psqlrc alone beside a home without any.
Scenarios == {<<TRUE, FALSE>>, <<FALSE, TRUE>>}

RunInitFS(cwd) ==
    { RepoFiles(cwd, sc[1]) @@ HomeFiles(sc[2])
        @@ (IF projects THEN (project_home :> Dir("user")) ELSE <<>>)
        @@ MakeDirs(Skeleton, cwd)
      : sc \in Scenarios, projects \in BOOLEAN }

InitRun ==
    /\ platform \in Platforms
    /\ current_dir \in {repo, elsewhere}
    /\ fs \in RunInitFS(current_dir)
    /\ fs0 = fs
    /\ args \in Chains
    /\ idx = 1
    /\ pc = "start"
    /\ log = <<>>
    /\ raised = NoRaise
    /\ lookups = {}
    /\ base = NoBaseline
    /\ NoLinkCalls
    /\ NoGateCalls

\* The machine a handler of the run starts on.
Running ==
    [fs |-> fs, log |-> log, exc |-> "none", site |-> "", rc |-> 0, ret |-> FALSE,
     asked |-> lookups]

\* The run takes over what the handler left; an exception ends it.
Finish(m, advance) ==
    /\ fs' = m.fs
    /\ log' = m.log
    /\ lookups' = m.asked
    /\ raised' = [exc |-> m.exc, site |-> m.site]
    /\ idx' = IF Ok(m) THEN idx + advance ELSE idx
    /\ pc' = IF ~Ok(m) THEN "aborted"
             ELSE IF idx + advance > Len(args) THEN "done"
             ELSE "run"
    /\ UNCHANGED <<platform, current_dir, fs0, args, linkVars, gateVars>>

At(name) == pc = "run" /\ args[idx] = name

\* An installer's exit status is not looked at; one that cannot be started
\* raises.
InstallOutcomes == {"exit0", "exit_nonzero", "not_found"}

\* What the host can make of a subcommand's check_for_install: only the
\* starship installer of linux goes to the network.
RunEnvs(os, app_name) ==
    [verify : RunOutcomes, install : InstallOutcomes, fallback : {"exit0"},
     net : IF os = "linux" /\ app_name = "starship" THEN {"online", "offline"}
           ELSE {"online"}]

Main ==
    /\ pc = "start"
    /\ Finish(main(platform, current_dir, Running), 0)
    /\ UNCHANGED base

\* What the host can make of a baseline: only darwin runs fzf's installer, and
\* only linux and darwin list and install at all.
BaseEnvs(os) ==
    [list : IF os \in {"linux", "darwin"} THEN {"exit0", "not_found"} ELSE {"exit0"},
     gaps : IF os \in {"linux", "darwin"} THEN SUBSET ListingGaps ELSE {{}},
     install : IF os \in {"linux", "darwin"} THEN {"exit0", "not_found"} ELSE {"exit0"},
     fzf : IF os = "darwin" THEN {"exit0", "not_found"} ELSE {"exit0"}]

\* The candidates the package manager's listing lacked.
Lacking(os, env) ==
    {each \in {baseline_candidates(os)[i] : i \in 1..Len(baseline_candidates(os))} :
        each \in env.gaps}

Baseline ==
    /\ At("baseline")
    /\ \E env \in BaseEnvs(platform) :
        /\ Finish(baseline(platform, Running, env), 1)
        /\ base' = IF platform \in {"linux", "darwin"} /\ env.list = "exit0"
                   THEN [ran |-> TRUE, missing |-> Lacking(platform, env),
                         install |-> env.install, fzf |-> env.fzf]
                   ELSE base

Bash ==
    /\ At("bash")
    /\ \E env \in RunEnvs(platform, "bash") : Finish(bash(platform, current_dir, Running, env), 1)
    /\ UNCHANGED base

Iterm2 ==
    /\ At("iterm2")
    /\ \E env \in RunEnvs(platform, "iterm2") : Finish(iterm2(platform, Running, env), 1)
    /\ UNCHANGED base

Psql ==
    /\ At("psql")
    /\ \E env \in RunEnvs(platform, "psql") : Finish(psql(platform, current_dir, Running, env), 1)
    /\ UNCHANGED base

Starship ==
    /\ At("starship")
    /\ \E env \in RunEnvs(platform, "starship") : Finish(starship(platform, current_dir, Running, env), 1)
    /\ UNCHANGED base

Tmux ==
    /\ At("tmux")
    /\ \E env \in RunEnvs(platform, "tmux") : Finish(tmux(platform, current_dir, Running, env), 1)
    /\ UNCHANGED base

\* What the host can make of vim's commands: the fallback installer and
\* LOCALAPPDATA are Windows'.
VimEnvs(os) ==
    [verify : RunOutcomes, install : InstallOutcomes,
     fallback : IF os = "win32" THEN {"exit0", "not_found"} ELSE {"exit0"},
     net : {"online", "offline"},
     localappdata : IF os = "win32" THEN BOOLEAN ELSE {TRUE}]

Vim ==
    /\ At("vim")
    /\ \E env \in VimEnvs(platform) : Finish(vim(platform, current_dir, Running, env), 1)
    /\ UNCHANGED base

Vscode ==
    /\ At("vscode")
    /\ Finish(vscode(Running), 1)
    /\ UNCHANGED base

NextRun ==
    \/ Main
    \/ Baseline
    \/ Bash
    \/ Iterm2
    \/ Psql
    \/ Starship
    \/ Tmux
    \/ Vim
    \/ Vscode

Spec == InitRun /\ [][NextRun]_vars

\* ------------------------------------------------ claims on create_symlink

\* The filesystem the i-th call left behind.
PostOf(i) == IF i < Len(calls) THEN calls[i + 1].pre ELSE fs

SourceOf(c) == current_dir \o c.source_file

TargetOf(c) == target_of(c.source_file, c.target_path)

\* The entry at p is what place() makes of the source: a symbolic link to the
\* source path, or on Windows a copy of what the source resolved to.
IsLinkTo(f, p, src) == Lstat(f, p) = Link(src)

IsCopyOf(f, p, before, src) ==
    /\ Lstat(f, p).kind = Stat(before, src).kind
    /\ Lstat(f, p).data = Stat(before, src).data

SameElsewhere(f, g, ps) ==
    \A q \in (DOMAIN f \cup DOMAIN g) :
        (\A p \in ps : ~IsPrefix(p, q)) => Lstat(f, q) = Lstat(g, q)

HadRealEntry(c) ==
    /\ exists(c.pre, SourceOf(c))
    /\ Lstat(c.pre, TargetOf(c)).kind \in {"file", "dir"}

SameInput(c, d) == c.source_file = d.source_file /\ c.target_path = d.target_path

\* C2: two calls in a row with the same source, both returning, leave the
\* target a symbolic link to the source, and the second call leaves the
\* ".bak" entry as the first one left it.
C2_Idempotent ==
    \A i \in 1..(Len(calls) - 1) :
        LET c == calls[i]
            d == calls[i + 1]
            bak == AppendBak(TargetOf(c))
        IN  (SameInput(c, d) /\ exists(c.pre, SourceOf(c))
               /\ c.exc = "none" /\ d.exc = "none") =>
              /\ IsLinkTo(PostOf(i + 1), TargetOf(c), SourceOf(c))
              /\ Lstat(PostOf(i + 1), bak) = Lstat(PostOf(i), bak)

\* C8: a call whose source does not exist returns normally and leaves the
\* filesystem exactly as it was.
C8_MissingSourceNoEffect ==
    \A i \in 1..Len(calls) :
        ~exists(calls[i].pre, SourceOf(calls[i])) =>
            calls[i].exc = "none" /\ PostOf(i) = calls[i].pre

\* A call without a source found a file at the target and an older backup.
C8_Witness ==
    \E i \in 1..Len(calls) :
        /\ ~exists(calls[i].pre, SourceOf(calls[i]))
        /\ Lstat(calls[i].pre, TargetOf(calls[i])).kind = "file"
        /\ Lstat(calls[i].pre, AppendBak(TargetOf(calls[i]))).kind = "dir"
        /\ PostOf(i) = calls[i].pre

Placed(c) == c.exc = "none" /\ exists(c.pre, SourceOf(c))

\* C9 as stated: without an explicit target the entry is made at
\* home / base name of the source's relative path.
C9_DefaultTargetIsBaseName ==
    \A i \in 1..Len(calls) :
        LET c == calls[i]
            at == home \o <<Last(c.source_file)>>
        IN  (c.target_path = None /\ Placed(c)) =>
              \/ IsLinkTo(PostOf(i), at, SourceOf(c))
              \/ platform = "win32" /\ IsCopyOf(PostOf(i), at, c.pre, SourceOf(c))

\* C9 amended: without an explicit target the entry is made at
\* home / the source's whole relative path, parent directories included.
C9_DefaultTargetIsRelativePath ==
    \A i \in 1..Len(calls) :
        LET c == calls[i]
            at == home \o c.source_file
        IN  (c.target_path = None /\ Placed(c)) =>
              /\ \/ IsLinkTo(PostOf(i), at, SourceOf(c))
                 \/ platform = "win32" /\ IsCopyOf(PostOf(i), at, c.pre, SourceOf(c))
              /\ \A q \in (DOMAIN c.pre \cup DOMAIN PostOf(i)) :
                     (~IsPrefix(at, q) /\ ~IsPrefix(AppendBak(at), q) /\ ~IsPrefix(q, at))
                         => Lstat(PostOf(i), q) = Lstat(c.pre, q)

\* A link for .config/starship.toml was made with no explicit target.
C9_Witness ==
    \E i \in 1..Len(calls) :
        /\ calls[i].source_file = starship_toml
        /\ calls[i].target_path = None
        /\ Placed(calls[i])
        /\ Lstat(calls[i].pre, home \o starship_toml).kind = "none"
        /\ IsLinkTo(PostOf(i), home \o starship_toml, repo \o starship_toml)

\* ------------------------------- claims on exit_code and check_for_install

\* C4: for a command line that names a program, exit_code returns without
\* raising, and returns TRUE exactly when the program started and exited
\* with status 0.
C4_ExitCodeTotal ==
    (ec.called /\ split(ec.command) # <<>>) =>
        /\ ec.exc = "none"
        /\ ec.ret <=> (ec.outcome = "exit0")

IsVerifyRun(e, app) ==
    e.op = "run" /\ e.argv \in {apps[app].verify, split(apps[app].verify)}

VerifyRuns(g) == SelectSeq(g.log, LAMBDA e : IsVerifyRun(e, g.app))

InstallerRuns(g) ==
    SelectSeq(g.log, LAMBDA e : e.op = "run" /\ e.started /\ ~IsVerifyRun(e, g.app))

\* C5, where every installer can be started and the host is online: the
\* verification command is run once; when it succeeds, or the catalog has no
\* package name for the platform, no installer is started and the call
\* returns; otherwise one installer is started (on win32, where a second
\* installer is tried after a failed one, at most two) and the call returns.
C5_InstallationGate ==
    (/\ gate.called
     /\ Started(gate.env.install)
     /\ Started(gate.env.fallback)
     /\ gate.env.net = "online") =>
        /\ Len(VerifyRuns(gate)) = 1
        /\ gate.exc = "none"
        /\ IF gate.env.verify = "exit0" \/ DictGet(apps[gate.app], platform) = ""
           THEN InstallerRuns(gate) = <<>>
           ELSE Len(InstallerRuns(gate)) \in (IF platform = "win32" THEN {1, 2} ELSE {1})

\* ------------------------------------------------------ claims on the run

UnderHome ==
    Len(current_dir) > Len(home) /\ SubSeq(current_dir, 1, Len(home)) = home

HasProjects == project_home \in DOMAIN fs0

NothingDone == fs = fs0 /\ log = <<>> /\ lookups = {} /\ idx = 1

InstallIssued(os, each) ==
    \E i \in 1..Len(log) :
        /\ log[i].op = "run"
        /\ log[i].argv = split(package_manager[os]) \o <<"install", each>>

\* C6, on a host where the package manager and fzf's installer can be
\* started: after a baseline on linux or darwin, every application of the
\* want-list that the listing lacked has had its install command issued.
C6_BaselineCompleteness ==
    (base.ran /\ base.install = "exit0" /\ base.fzf = "exit0") =>
        \A each \in base.missing : InstallIssued(platform, each)

\* C7: a child process that fails inside one subcommand does not end a run
\* that has later subcommands to execute.
C7_PartialCompletion ==
    ~(/\ pc = "aborted"
      /\ raised.site = "subprocess.run"
      /\ idx < Len(args))

\* C10: every application name passed to check_for_install is a key of the
\* catalog, and the lookup of its descriptor never fails.
C10_CatalogCoverage ==
    /\ lookups \subseteq DOMAIN apps
    /\ raised.site # "apps[app_name]"

====
